---- MODULE Spec2Model ----
(***************************************************************************)
(* A model of python-task-queue (taskqueue/taskqueue.py): the TaskQueue    *)
(* facade over a lease-based queue backend, its background dispatcher, and *)
(* the poll worker loop (one run, one run to the end of the queue, several *)
(* runs on one backend), the purge fallback loop, and LocalTaskQueue with  *)
(* its process pool.                                                       *)
(*                                                                         *)
(* The queue backend (AWSTaskQueueAPI), the dispatcher (ThreadedQueue) and *)
(* task deserialization (registered_task.deserialize) are collaborators    *)
(* whose code is not part of taskqueue.py; they are modelled from their    *)
(* documented contract.  Sleep durations are whole seconds.                *)
(***************************************************************************)
EXTENDS Integers, Sequences, FiniteSets, Bags, TLC

(* ------------------------------ bounds --------------------------------- *)
\* tasks ever inserted into the backend queue
MaxTasks == 2
\* lease requests one poll run may issue
MaxIter == 3
\* calls a facade client may have waiting in the dispatcher
MaxPending == 2
\* scope exits of one LocalTaskQueue
MaxExits == 2

(* --------------------------- input domains ----------------------------- *)
\* the tag argument of poll and lease: None, the empty string, or a tag
NoneTag == "None"
\* the tag argument poll is called with.  poll never reads it (line 289), so
\* a run called with tag = None differs from one called with a tag in nothing
\* but args.tag: only the calls with a tag are enumerated
TagArgs == {"A"}
\* exception types a task or a backend call may raise
QueueEmpty == "QueueEmpty"
Errors == {"E1", "E2"}
NoExc == "none"
\* the backoff_exceptions argument of poll
BackoffArgs == {{}, {"E1"}}
\* the stop_fn argument of poll: a callable, whose answers are arbitrary, or
\* something not callable.  stop_fn = None is replaced by a callable that
\* always answers False (lines 252-253): one of the behaviours of "callable"
StopFns == {"callable", "notcallable"}
\* (min_backoff_window, max_backoff_window) arguments of poll
Windows == {<<1, 2>>, <<2, 3>>}
\* len(self._threads) after construction: no thread pool, or a pool
ThreadCounts == {0, 1}
\* the parallel argument of LocalTaskQueue: the size of the process pool
ParallelArgs == {1, 2}

NoId == 0
NoTask == [cls |-> "unknown", id |-> NoId]
NoBody == [payload |-> <<>>, groupByTag |-> FALSE, tag |-> NoneTag]

Min(a, b) == IF a < b THEN a ELSE b

VARIABLES
  \* the backend queue
  store,      \* id -> [payload, tag] of every task not deleted
  leased,     \* ids under an active lease
  nextId,     \* the id the backend assigns next
  \* the facade and its dispatcher
  n_threads,  \* len(self._threads)
  pending,    \* the bag of calls put on the dispatcher's queue, not yet run
  errors,     \* exceptions of dispatched calls, not yet raised by wait()
  \* one poll run
  pc, LOOP, handler, args, tries, executed, backoff, task, dur, ret,
  \* what the run has done so far (observations, read by no action's guard
  \* other than the iteration bound)
  exc,        \* the exception raised inside the try block of this iteration
  hist,       \* counters of the calls the run made
  consec,     \* iterations ended in backoff since the last successful one
  doneSet,    \* ids whose delete call returned normally in this run
  execSet,    \* ids whose execute returned normally in this run
  delSet,     \* ids this run called delete for
  leasedSet,  \* the tasks this run's lease calls returned
  intAt,      \* where the run was when the first SIGINT arrived: in an
              \* iteration (loop test passed, try block not left) or between
  \* a client of the facade
  cret,       \* the outcome of the client's last call
  held,       \* ids of the tasks the client leased and has not deleted
  unconfirmed,\* ids whose delete is dispatched, with no wait() since
  acked,      \* ids whose delete is known to be complete
  \* one LocalTaskQueue and its process pool
  parallel,   \* self.parallel: the number of worker processes
  queue,      \* self.queue: the buffered tasks
  scope,      \* "open", or where __exit__ is
  futures,    \* the state of the future of every task executor.map submitted
  yielded,    \* results the iteration over executor.map has been given
  log,        \* every task ever inserted: whether its execute raises, and
              \* how often execute was called on it (observation)
  lastExit,   \* how the last __exit__ ended (observation)
  exits,      \* calls of __exit__ so far
  \* one purge call
  ppc,        \* where the call is
  lst,        \* the result of its last list()
  todo,       \* the tasks of lst the for loop has not reached yet
  pmark,      \* the id the backend assigned next at that list() (observation)
  \* the leases
  expiredIds, \* ids of the tasks a lease on which has expired (observation)
  \* several poll runs on one backend
  runs,       \* run -> where it is and the task it holds
  grants,     \* lease calls of all runs so far
  calls       \* task id -> how often execute was called on it, how often it
              \* returned, and whether it ever raised (observation)

backendVars == <<store, leased, nextId>>
dispatchVars == <<n_threads, pending, errors>>
pollVars == <<pc, LOOP, handler, args, tries, executed, backoff, task, dur, ret>>
obsVars == <<exc, hist, consec, doneSet, execSet, delSet, leasedSet, intAt>>
clientVars == <<cret, held, unconfirmed, acked>>
localVars == <<parallel, queue, scope, futures, yielded, log, lastExit, exits>>
\* the variables of the parts that no action of the facade, of its dispatcher
\* or of poll reads or writes
purgeVars == <<ppc, lst, todo, pmark>>
crowdVars == <<runs, grants, calls>>
farVars == <<localVars, purgeVars, expiredIds, crowdVars>>
vars == <<backendVars, dispatchVars, pollVars, obsVars, clientVars, farVars>>

(* ----------------------- tasks and serialization ----------------------- *)
\* RegisteredTask.payload(): the serialized constructor arguments
payload(t) == <<t.cls>>

\* registered_task.deserialize: a task object with no id yet
deserialize(p) == [cls |-> p[1], id |-> NoId]

\* totask: deserialize the record's payload and attach the record's id
totask(rec) == [deserialize(rec.payload) EXCEPT !.id = rec.id]

\* the body envelope insert() sends
insert_body(t) ==
  [payload |-> payload(t), groupByTag |-> TRUE, tag |-> t.cls]

(* ------------------------------ backend -------------------------------- *)
Without(f, i) == [j \in DOMAIN f \ {i} |-> f[j]]

RECURSIVE Arrangements(_, _)
\* the sequences of k distinct elements of S (all of S when it has fewer)
Arrangements(S, k) ==
  IF k = 0 \/ S = {} THEN {<<>>}
  ELSE UNION {{<<x>> \o r : r \in Arrangements(S \ {x}, k - 1)} : x \in S}

Record(i) == [id |-> i, payload |-> store[i].payload]

\* api.insert(body): the backend stores the task under a fresh id
api_insert(body) ==
  /\ store' = store @@ (nextId :> [payload |-> body.payload, tag |-> body.tag])
  /\ nextId' = nextId + 1
  /\ leased' = leased

\* the tasks api.lease may grant: not leased, and of the tag when grouping
Available(groupByTag, tag) ==
  {i \in DOMAIN store \ leased : groupByTag => store[i].tag = tag}

\* the answers api.lease(numTasks, seconds, groupByTag, tag) may give: up to
\* numTasks records of available tasks, in an order the backend chooses
LeaseAnswers(numTasks, groupByTag, tag) ==
  {[k \in DOMAIN a |-> Record(a[k])] :
     a \in Arrangements(Available(groupByTag, tag), numTasks)}

\* the effect of api.lease answering recs: those tasks are now leased
api_lease(recs) ==
  /\ leased' = leased \cup {recs[k].id : k \in DOMAIN recs}
  /\ UNCHANGED <<store, nextId>>

\* api.delete(id) / api.acknowledge(id): the task is gone for good
api_delete(i) ==
  /\ store' = Without(store, i)
  /\ leased' = leased \ {i}
  /\ nextId' = nextId

\* api.list(): every task not deleted, leased or not
api_list == {Record(i) : i \in DOMAIN store}

(* ------------------------------- facade -------------------------------- *)
\* TaskQueue.lease, line 154: an empty tag is no tag
lease_tag(tag) == IF tag = "" \/ tag = NoneTag THEN NoneTag ELSE tag

\* a faulty variant of lease: the last record of the answer is returned
lease_result_last(tasks) ==
  IF Len(tasks) = 0
    THEN [raised |-> QueueEmpty, task |-> NoTask]
    ELSE [raised |-> NoExc, task |-> totask(tasks[Len(tasks)])]

\* TaskQueue.lease, lines 162-166: the outcome for the backend's answer
lease_result(tasks) ==
  IF Len(tasks) = 0
    THEN [raised |-> QueueEmpty, task |-> NoTask]
    ELSE [raised |-> NoExc, task |-> totask(tasks[1])]

\* TaskQueue.lease(seconds, num_tasks, tag): every way the call can end, as
\* [recs: the backend's answer, raised: the exception, task: the task returned]
lease(num_tasks, tag) ==
  LET t == lease_tag(tag) IN
  {[recs |-> r, raised |-> lease_result(r).raised, task |-> lease_result(r).task] :
     r \in LeaseAnswers(num_tasks, t # NoneTag, t)}
  \cup {[recs |-> <<>>, raised |-> e, task |-> NoTask] : e \in Errors}

\* ThreadedQueue.put: hand a call (the closure cloud_insertion or
\* cloud_delete) to the dispatcher
put(call) == pending' = pending (+) SetToBag({call})

\* a faulty variant of delete: with a thread pool the call is dropped
delete_dropped(task_id, result) ==
  /\ result = "ok"
  /\ IF n_threads > 0
       THEN UNCHANGED <<pending, backendVars>>
       ELSE pending' = pending /\ api_delete(task_id)

\* a faulty variant of delete: the synchronous call is never made
delete_skipped(task_id, result) ==
  /\ result = "ok"
  /\ IF n_threads > 0
       THEN put([op |-> "cloud_delete", id |-> task_id, body |-> NoBody]) /\ UNCHANGED backendVars
       ELSE UNCHANGED <<pending, backendVars>>

\* TaskQueue.delete(task_id) ending with result: "ok" or the exception raised
delete(task_id, result) ==
  IF n_threads > 0
    THEN /\ result = "ok"
         /\ put([op |-> "cloud_delete", id |-> task_id, body |-> NoBody])
         /\ UNCHANGED backendVars
    ELSE /\ pending' = pending
         /\ IF result = "ok" THEN api_delete(task_id)
                             ELSE UNCHANGED backendVars

\* TaskQueue.acknowledge(task_id): as delete, through api.acknowledge, which
\* has the effect of api.delete
acknowledge(task_id, result) ==
  IF n_threads > 0
    THEN /\ result = "ok"
         /\ put([op |-> "cloud_delete", id |-> task_id, body |-> NoBody])
         /\ UNCHANGED backendVars
    ELSE /\ pending' = pending
         /\ IF result = "ok" THEN api_delete(task_id)
                             ELSE UNCHANGED backendVars

\* TaskQueue.insert(task): dispatched with a thread pool, synchronous without
insert(t) ==
  IF n_threads > 0
    THEN /\ put([op |-> "cloud_insertion", id |-> NoId, body |-> insert_body(t)])
         /\ UNCHANGED backendVars
    ELSE /\ pending' = pending
         /\ api_insert(insert_body(t))

\* TaskQueue.list(): the tasks of the backend's records
list == {totask(x) : x \in api_list}

(* ---------------------------- environment ------------------------------ *)
\* a dispatcher thread takes a call off the queue and runs it on the backend;
\* with several threads the calls complete in any order
DispatchRun ==
  \E call \in BagToSet(pending) :
    /\ pending' = pending (-) SetToBag({call})
    /\ \/ /\ IF call.op = "cloud_insertion" THEN api_insert(call.body)
                                    ELSE api_delete(call.id)
          /\ errors' = errors
       \/ /\ errors' = TRUE
          /\ UNCHANGED backendVars
    /\ n_threads' = n_threads

\* a lease runs out: the task can be leased again
LeaseExpire ==
  /\ \E i \in leased : leased' = leased \ {i}
  /\ UNCHANGED <<store, nextId>>

\* the class of the k-th task inserted: the classes "B" and "A" alternate
\* (insert uses the class name as the tag)
ClassOf(k) == IF k % 2 = 1 THEN "B" ELSE "A"

\* the backend after k tasks were inserted: the sum of k api_insert calls
Preloaded(k) ==
  /\ store = [i \in 1..k |->
                [payload |-> insert_body([cls |-> ClassOf(i), id |-> NoId]).payload,
                 tag |-> insert_body([cls |-> ClassOf(i), id |-> NoId]).tag]]
  /\ nextId = k + 1

\* another client inserts a task
Producer ==
  /\ nextId <= MaxTasks
  /\ api_insert(insert_body([cls |-> ClassOf(nextId), id |-> NoId]))

(* ------------------------------- poll ---------------------------------- *)
\* line 284: QueueEmpty always backs off
backoff_exceptions_no_empty(listed) == listed

backoff_exceptions(listed) == listed \cup {QueueEmpty}

RECURSIVE Pow2(_)
Pow2(n) == IF n <= 0 THEN 1 ELSE 2 * Pow2(n - 1)

\* a faulty variant of the window: the ceiling is not applied
random_exponential_window_backoff_uncapped(n) ==
  0..Pow2(Min(n, args.min_backoff_window))

\* lines 255-261: the values random.uniform(0, high) may return
random_exponential_window_backoff(n) ==
  0..Min(Pow2(Min(n, args.min_backoff_window)), args.max_backoff_window)

\* the counters of the observations stop at the bound on the iterations
Inc(n) == IF n < MaxIter THEN n + 1 ELSE n

Hist0 == [lease |-> 0, leaseOk |-> 0, execOk |-> 0, delOk |-> 0,
          stop |-> 0, stopTrue |-> 0, sleep |-> 0]

Args0 == [tag |-> NoneTag, stop_fn |-> "callable", listed |-> {},
          backoff_exceptions |-> {}, min_backoff_window |-> 1,
          max_backoff_window |-> 1]

\* no poll run has been started
PollInit ==
  /\ pc = "idle" /\ LOOP = FALSE /\ handler = "prev" /\ args = Args0
  /\ tries = 0 /\ executed = 0 /\ backoff = FALSE /\ task = NoTask
  /\ dur = 0 /\ ret = 0
  /\ exc = NoExc /\ hist = Hist0 /\ consec = 0 /\ doneSet = {}
  /\ execSet = {} /\ delSet = {} /\ leasedSet = {} /\ intAt = "none"

\* the client has called nothing
ClientInit ==
  cret = [op |-> "none"] /\ held = {} /\ unconfirmed = {} /\ acked = {}

\* LocalTaskQueue.__init__, lines 345-351: an empty buffer
LocalInit ==
  /\ parallel \in ParallelArgs /\ queue = <<>> /\ scope = "open"
  /\ futures = <<>> /\ yielded = 0 /\ log = <<>> /\ lastExit = "none"
  /\ exits = 0

\* no LocalTaskQueue is in use
LocalIdle ==
  /\ parallel = 1 /\ queue = <<>> /\ scope = "open"
  /\ futures = <<>> /\ yielded = 0 /\ log = <<>> /\ lastExit = "none"
  /\ exits = 0

\* purge has not been called
PurgeInit == ppc = "idle" /\ lst = {} /\ todo = {} /\ pmark = 0

\* no other poll run is in use
CrowdIdle == runs = <<>> /\ grants = 0 /\ calls = <<>>

Init ==
  /\ store = <<>> /\ leased = {} /\ nextId = 1
  /\ n_threads \in ThreadCounts /\ pending = EmptyBag /\ errors = FALSE
  /\ PollInit /\ ClientInit /\ LocalIdle /\ PurgeInit /\ expiredIds = {} /\ CrowdIdle

\* lines 248-284: the arguments are checked, the handler installed, the
\* counters cleared
poll ==
  /\ pc = "idle"
  /\ UNCHANGED <<clientVars, farVars>>
  /\ \E tg \in TagArgs, sf \in StopFns, be \in BackoffArgs, w \in Windows :
       IF sf = "notcallable"
         THEN /\ pc' = "raised"
              /\ exc' = "ValueError"
              /\ args' = [args EXCEPT !.stop_fn = sf]
              /\ UNCHANGED <<LOOP, handler>>
         ELSE /\ pc' = "while"
              /\ exc' = NoExc
              /\ LOOP' = TRUE
              /\ handler' = "sigint_handler"
              /\ args' = [tag |-> tg, stop_fn |-> sf, listed |-> be,
                          backoff_exceptions |-> backoff_exceptions(be),
                          min_backoff_window |-> w[1],
                          max_backoff_window |-> w[2]]
  /\ tries' = 0 /\ executed' = 0 /\ backoff' = FALSE
  /\ UNCHANGED <<task, dur, ret, backendVars, dispatchVars>>
  /\ UNCHANGED <<hist, consec, doneSet, execSet, delSet, leasedSet, intAt>>

\* line 286: the loop condition
loop_test ==
  /\ pc = "while"
  /\ UNCHANGED <<clientVars, farVars>>
  /\ IF LOOP
       THEN /\ task' = NoTask
            /\ exc' = NoExc
            /\ pc' = "lease"
       ELSE /\ pc' = "exit"
            /\ UNCHANGED <<task, exc>>
  /\ UNCHANGED <<LOOP, handler, args, tries, executed, backoff, dur, ret>>
  /\ UNCHANGED <<backendVars, dispatchVars>>
  /\ UNCHANGED <<hist, consec, doneSet, execSet, delSet, leasedSet, intAt>>

\* a faulty variant of the handlers: every exception backs off
on_exception_swallow(e) ==
  /\ backoff' = TRUE
  /\ pc' = "stop"

\* a faulty variant of the handlers: after a listed exception of execute the
\* iteration goes on to the delete
on_exception_continues(e) ==
  IF e \in args.backoff_exceptions
    THEN /\ backoff' = TRUE
         /\ pc' = IF pc = "execute" THEN "delete" ELSE "stop"
    ELSE /\ backoff' = backoff
         /\ pc' = "raised"

\* lines 298-302: a listed exception backs off, any other is raised again
on_exception(e) ==
  IF e \in args.backoff_exceptions
    THEN /\ backoff' = TRUE
         /\ pc' = "stop"
    ELSE /\ backoff' = backoff
         /\ pc' = "raised"

\* the loop condition, for a run of at most MaxIter iterations
while_LOOP ==
  /\ LOOP => hist.lease < MaxIter
  /\ loop_test

\* lines 289-290: lease one task, with no tag
poll_lease ==
  /\ pc = "lease"
  /\ UNCHANGED <<clientVars, farVars>>
  /\ \E r \in lease(1, NoneTag) :
       /\ api_lease(r.recs)
       /\ IF r.raised = NoExc
            THEN /\ task' = r.task
                 /\ tries' = tries + 1
                 /\ pc' = "execute"
                 /\ UNCHANGED <<backoff, exc, consec>>
                 /\ hist' = [hist EXCEPT !.lease = Inc(@), !.leaseOk = Inc(@)]
                 /\ leasedSet' = leasedSet \cup {r.task}
            ELSE /\ on_exception(r.raised)
                 /\ exc' = r.raised
                 /\ consec' = Inc(consec)
                 /\ hist' = [hist EXCEPT !.lease = Inc(@)]
                 /\ UNCHANGED <<task, tries, leasedSet>>
  /\ UNCHANGED <<LOOP, handler, args, executed, dur, ret, dispatchVars>>
  /\ UNCHANGED <<doneSet, execSet, delSet, intAt>>

\* a faulty variant of the execute step: a task whose execute raised is counted too
poll_execute_counts_raise ==
  /\ pc = "execute"
  /\ UNCHANGED <<clientVars, farVars>>
  /\ executed' = executed + 1
  /\ \/ /\ pc' = "delete"
        /\ hist' = [hist EXCEPT !.execOk = Inc(@)]
        /\ execSet' = execSet \cup {task.id}
        /\ UNCHANGED <<backoff, exc, consec>>
     \/ \E e \in Errors \cup {QueueEmpty} :
          /\ on_exception(e)
          /\ exc' = e
          /\ consec' = Inc(consec)
          /\ UNCHANGED <<hist, execSet>>
  /\ UNCHANGED <<LOOP, handler, args, tries, task, dur, ret>>
  /\ UNCHANGED <<backendVars, dispatchVars>>
  /\ UNCHANGED <<doneSet, delSet, leasedSet, intAt>>

\* lines 292-293: run the task
poll_execute ==
  /\ pc = "execute"
  /\ UNCHANGED <<clientVars, farVars>>
  /\ \/ /\ executed' = executed + 1
        /\ pc' = "delete"
        /\ hist' = [hist EXCEPT !.execOk = Inc(@)]
        /\ execSet' = execSet \cup {task.id}
        /\ UNCHANGED <<backoff, exc, consec>>
     \/ \E e \in Errors \cup {QueueEmpty} :
          /\ on_exception(e)
          /\ exc' = e
          /\ consec' = Inc(consec)
          /\ UNCHANGED <<executed, hist, execSet>>
  /\ UNCHANGED <<LOOP, handler, args, tries, task, dur, ret>>
  /\ UNCHANGED <<backendVars, dispatchVars>>
  /\ UNCHANGED <<doneSet, delSet, leasedSet, intAt>>

\* lines 295-297: delete the task, then clear the retry counter
poll_delete ==
  /\ pc = "delete"
  /\ UNCHANGED <<clientVars, farVars>>
  /\ \E result \in {"ok"} \cup Errors :
       /\ delete(task.id, result)
       /\ IF result = "ok"
            THEN /\ tries' = 0
                 /\ pc' = "stop"
                 /\ doneSet' = doneSet \cup {task.id}
                 /\ consec' = 0
                 /\ hist' = [hist EXCEPT !.delOk = Inc(@)]
                 /\ UNCHANGED <<backoff, exc>>
            ELSE /\ on_exception(result)
                 /\ exc' = result
                 /\ consec' = Inc(consec)
                 /\ UNCHANGED <<tries, doneSet, hist>>
  /\ delSet' = delSet \cup {task.id}
  /\ UNCHANGED <<LOOP, handler, args, executed, task, dur, ret>>
  /\ UNCHANGED <<n_threads, errors, execSet, leasedSet, intAt>>

\* a faulty variant of the stop check: the backoff sleep comes before the break
poll_stop_sleeps_first ==
  /\ pc = "stop"
  /\ UNCHANGED <<clientVars, farVars>>
  /\ \E stop \in BOOLEAN :
       /\ IF backoff THEN pc' = "sleep" /\ backoff' = backoff
          ELSE IF stop THEN pc' = "exit" /\ backoff' = backoff
          ELSE pc' = "while" /\ backoff' = FALSE
       /\ hist' = [hist EXCEPT !.stop = Inc(@),
                               !.stopTrue = IF stop THEN Inc(@) ELSE @]
  /\ UNCHANGED <<LOOP, handler, args, tries, executed, task, dur, ret>>
  /\ UNCHANGED <<backendVars, dispatchVars>>
  /\ UNCHANGED <<exc, consec, doneSet, execSet, delSet, leasedSet, intAt>>

\* lines 304-310: ask stop_fn; without a backoff the next iteration follows
poll_stop ==
  /\ pc = "stop"
  /\ UNCHANGED <<clientVars, farVars>>
  /\ \E stop \in BOOLEAN :
       /\ IF stop THEN pc' = "exit" /\ backoff' = backoff
          ELSE IF backoff THEN pc' = "sleep" /\ backoff' = backoff
          ELSE pc' = "while" /\ backoff' = FALSE
       /\ hist' = [hist EXCEPT !.stop = Inc(@),
                               !.stopTrue = IF stop THEN Inc(@) ELSE @]
  /\ UNCHANGED <<LOOP, handler, args, tries, executed, task, dur, ret>>
  /\ UNCHANGED <<backendVars, dispatchVars>>
  /\ UNCHANGED <<exc, consec, doneSet, execSet, delSet, leasedSet, intAt>>

\* lines 307-308: time.sleep begins, for a duration drawn from the window
poll_sleep ==
  /\ pc = "sleep"
  /\ UNCHANGED <<clientVars, farVars>>
  /\ \E d \in random_exponential_window_backoff(tries) : dur' = d
  /\ pc' = "sleeping"
  /\ hist' = [hist EXCEPT !.sleep = Inc(@)]
  /\ UNCHANGED <<LOOP, handler, args, tries, executed, backoff, task, ret>>
  /\ UNCHANGED <<backendVars, dispatchVars>>
  /\ UNCHANGED <<exc, consec, doneSet, execSet, delSet, leasedSet, intAt>>

\* a faulty variant of the wake-up: the backoff flag is left set
poll_wake_keeps_backoff ==
  /\ pc = "sleeping"
  /\ UNCHANGED <<clientVars, farVars>>
  /\ dur' = 0
  /\ backoff' = backoff
  /\ pc' = "while"
  /\ UNCHANGED <<LOOP, handler, args, tries, executed, task, ret>>
  /\ UNCHANGED <<backendVars, dispatchVars, obsVars>>

\* lines 308-310: time.sleep returns
poll_wake ==
  /\ pc = "sleeping"
  /\ UNCHANGED <<clientVars, farVars>>
  /\ dur' = 0
  /\ backoff' = FALSE
  /\ pc' = "while"
  /\ UNCHANGED <<LOOP, handler, args, tries, executed, task, ret>>
  /\ UNCHANGED <<backendVars, dispatchVars, obsVars>>

\* lines 312-315: the previous handler is installed again, the count returned
poll_exit ==
  /\ pc = "exit"
  /\ UNCHANGED <<clientVars, farVars>>
  /\ handler' = "prev"
  /\ ret' = executed
  /\ pc' = "done"
  /\ UNCHANGED <<LOOP, args, tries, executed, backoff, task, dur>>
  /\ UNCHANGED <<backendVars, dispatchVars, obsVars>>

\* a faulty variant of the handler: the interrupt ends the loop at once
sigint_handler_abort ==
  /\ LOOP' = FALSE
  /\ pc' = "exit"

\* a faulty variant of the handler: the flag it clears is a local of its own
sigint_handler_local ==
  /\ LOOP' = LOOP
  /\ pc' = pc

\* lines 269-272: the interrupt clears the flag; the interrupted statement
\* goes on
sigint_handler ==
  /\ LOOP' = FALSE
  /\ pc' = pc

\* a SIGINT is delivered while poll's handler is installed
SIGINT ==
  /\ handler = "sigint_handler"
  /\ UNCHANGED <<clientVars, farVars>>
  /\ sigint_handler
  /\ intAt' = IF intAt # "none" THEN intAt
              ELSE IF pc \in {"lease", "execute", "delete"} THEN "iteration"
              ELSE "between"
  /\ UNCHANGED <<handler, args, tries, executed, backoff, task, dur, ret>>
  /\ UNCHANGED <<backendVars, dispatchVars>>
  /\ UNCHANGED <<exc, hist, consec, doneSet, execSet, delSet, leasedSet>>

EnvDispatch == DispatchRun /\ UNCHANGED <<pollVars, obsVars, clientVars, farVars>>
EnvLeaseExpire ==
  LeaseExpire /\ UNCHANGED <<dispatchVars, pollVars, obsVars, clientVars, farVars>>
EnvProducer ==
  Producer /\ UNCHANGED <<dispatchVars, pollVars, obsVars, clientVars, farVars>>

Next ==
  \/ poll \/ while_LOOP \/ poll_lease \/ poll_execute \/ poll_delete
  \/ poll_stop \/ poll_sleep \/ poll_wake \/ poll_exit
  \/ SIGINT \/ EnvDispatch \/ EnvLeaseExpire \/ EnvProducer

Spec == Init /\ [][Next]_vars

(* ------------------------ claims about poll ---------------------------- *)
Absorbed == args.listed \cup {QueueEmpty}
Dispatched(i) == \E call \in BagToSet(pending) : call.id = i

\* C1 as stated: the count poll returns is the number of iterations in which
\* lease, execute and delete all completed without raising.
C1_CountIsFullCycles == pc = "done" => ret = hist.delOk

\* C1 amended: the count poll returns is the number of iterations in which
\* lease and execute completed without raising; an iteration whose delete
\* then raised is counted, so the count is at least the number of full cycles.
C1_CountIsExecuted ==
  pc = "done" => ret = hist.execOk /\ ret >= hist.delOk /\ ret <= hist.leaseOk

C1_Witness ==
  /\ pc = "done" /\ ret = 2 /\ hist.delOk = 1 /\ hist.lease = 3
  /\ hist.leaseOk = 2 /\ exc = "E1"

\* C2 as stated: whenever poll issues a lease, every task whose delete call
\* returned earlier in the run is already gone from the backend, thread pool
\* or not.
C2_AckBeforeNextLease ==
  [][hist'.lease = hist.lease + 1 => \A i \in doneSet : i \notin DOMAIN store]_vars

\* C2 amended: whenever poll issues a lease, every task whose delete call
\* returned earlier in the run is gone from the backend when no thread pool is
\* active; with a thread pool its delete has been handed to the dispatcher,
\* where it may still be waiting or may have failed.
C2_AckBeforeNextLeaseSync ==
  [][hist'.lease = hist.lease + 1 =>
       \A i \in doneSet :
         IF n_threads = 0 THEN i \notin DOMAIN store
         ELSE i \notin DOMAIN store \/ Dispatched(i) \/ errors]_vars

C2_Witness ==
  /\ n_threads = 0 /\ pc = "execute" /\ doneSet # {} /\ task.id \notin doneSet
  /\ hist.lease = 2

\* C3 as stated: after poll has returned following an interrupt, no task the
\* run executed successfully is still in the backend.
C3_NoExecutedUndeleted ==
  (pc = "done" /\ intAt # "none") => \A i \in execSet : i \notin DOMAIN store

\* C3 amended: after poll has returned following an interrupt, delete has been
\* called for every task the run executed successfully; a task whose delete
\* call returned is gone from the backend when no thread pool is active, and
\* has been handed to the dispatcher otherwise.
C3_InterruptAfterDeleteCall ==
  (pc = "done" /\ intAt # "none") =>
     /\ execSet \subseteq delSet
     /\ \A i \in doneSet :
          IF n_threads = 0 THEN i \notin DOMAIN store
          ELSE i \notin DOMAIN store \/ Dispatched(i) \/ errors

C3_Witness ==
  /\ pc = "done" /\ intAt = "iteration" /\ n_threads = 0
  /\ task.id \in doneSet /\ hist.lease = 1

\* C4: when poll is about to sleep, tries equals the number of consecutive
\* iterations that ended in backoff since the last successful one.
C4_TriesCountsBackoffs == pc = "sleep" => tries = consec

\* C5: every sleep lasts between 0 and
\* min(2^min(tries, min_backoff_window), max_backoff_window) seconds, at most
\* 2 seconds with the windows 1 and 2, and tries is 0 after an iteration in
\* which lease, execute and delete succeeded.
C5_SleepWithinWindow ==
  /\ pc = "sleeping" =>
       /\ dur >= 0
       /\ dur <= Pow2(Min(tries, args.min_backoff_window))
       /\ dur <= args.max_backoff_window
       /\ (args.min_backoff_window = 1 /\ args.max_backoff_window = 2) => dur <= 2
  /\ (pc = "stop" /\ exc = NoExc) => tries = 0

C5_Witness ==
  pc = "sleeping" /\ tries = 2 /\ dur = 3 /\ args.max_backoff_window = 3

\* C6: QueueEmpty and the listed exceptions never leave poll: after one is
\* raised the iteration is in backoff and goes on to the stop check.
C6_RetryableAbsorbed ==
  /\ pc = "raised" => exc \notin Absorbed
  /\ exc \in Absorbed =>
       /\ pc \in {"stop", "sleep", "sleeping", "while", "exit", "done"}
       /\ pc \in {"stop", "sleep", "sleeping"} => backoff

C6_Witness ==
  exc = QueueEmpty /\ args.listed = {} /\ pc = "sleeping" /\ hist.lease = 2

\* C7: an exception that is neither QueueEmpty nor listed leaves poll: the
\* step that raises it changes nothing in the backend and dispatches nothing,
\* and from then on the run leases, executes, deletes, asks stop_fn and sleeps
\* no more.
C7_FatalPropagates ==
  [][/\ (exc = NoExc /\ exc' \notin (Absorbed' \cup {NoExc})) =>
          /\ pc' = "raised"
          /\ store' = store /\ pending' = pending
          /\ hist'.delOk = hist.delOk /\ hist'.stop = hist.stop
     /\ pc = "raised" =>
          /\ pc' = "raised"
          /\ hist' = hist /\ delSet' = delSet /\ execSet' = execSet
          /\ BagCardinality(pending') <= BagCardinality(pending)
          /\ dur' = dur]_vars

C7_Witness ==
  /\ pc = "raised" /\ exc = "E1" /\ args.listed = {} /\ hist.leaseOk = 2
  /\ task.id \in DOMAIN store

\* C10: when poll is called with a tag, every task it leases carries that tag.
C10_OnlyTaggedLeased ==
  args.tag # NoneTag => \A t \in leasedSet : t.cls = args.tag

\* C11: whenever poll has ended, by returning or by raising, the handler that
\* was installed before the call is installed again.
C11_HandlerRestored == pc \in {"done", "raised"} => handler = "prev"

\* C14: stop_fn is asked exactly once after every iteration that completed,
\* successful or in backoff, and never between the lease and the delete of a
\* task; once it has answered true the loop is over, with no sleep and no
\* lease after that answer.
C14_StopOncePerIteration ==
  /\ pc \in {"execute", "delete", "stop"} => hist.stop = hist.lease - 1
  /\ pc \in {"while", "lease", "sleep", "sleeping", "exit", "done"} =>
       hist.stop = hist.lease
  /\ (pc = "raised" /\ exc # "ValueError") => hist.stop = hist.lease - 1
  /\ hist.stopTrue <= 1
  /\ hist.stopTrue = 1 => pc \in {"exit", "done"}
  /\ hist.sleep <= hist.stop - hist.stopTrue

C14_Witness ==
  /\ pc = "done" /\ hist.stopTrue = 1 /\ hist.stop = 2 /\ backoff
  /\ hist.delOk = 1 /\ hist.sleep = 0 /\ exc = QueueEmpty

\* C15: when stop_fn has not ended the loop, poll sleeps before the next
\* iteration exactly when the iteration just completed raised QueueEmpty or a
\* listed exception; an iteration that leased, executed and deleted without an
\* exception goes straight to the next loop test, and no sleep begins anywhere
\* else.
C15_SleepIffBackoff ==
  [][/\ (pc = "stop" /\ pc' \in {"sleep", "while"}) =>
          (pc' = "sleep" <=> exc \in Absorbed)
     /\ (pc = "stop" /\ exc = NoExc) => pc' \in {"stop", "exit", "while"}
     /\ hist'.sleep # hist.sleep =>
          /\ pc = "sleep" /\ pc' = "sleeping" /\ exc \in Absorbed
          /\ hist'.sleep = hist.sleep + 1]_vars

C15_Witness ==
  /\ pc = "while" /\ hist.lease = 2 /\ hist.stop = 2 /\ hist.sleep = 1
  /\ hist.delOk = 1 /\ exc = NoExc /\ hist.stopTrue = 0

\* C16 as stated: once a SIGINT has been delivered, the run issues no lease.
C16_NoLeaseAfterInterrupt ==
  [][intAt # "none" => hist'.lease = hist.lease]_vars

\* C16 amended: once a SIGINT has been delivered the loop test is never passed
\* again, and the run issues no lease, except the lease of the iteration whose
\* loop test had already passed when the interrupt arrived; the interrupt
\* itself changes nothing but the flag, and an execute in progress ends as it
\* would have without it.
C16_NoLoopTestAfterInterrupt ==
  [][/\ intAt # "none" => ~(pc = "while" /\ pc' = "lease")
     /\ (intAt # "none" /\ hist'.lease # hist.lease) =>
          /\ intAt = "iteration" /\ pc = "lease"
          /\ hist'.lease = hist.lease + 1
     /\ intAt = "between" => hist'.lease = hist.lease
     /\ intAt' # intAt =>
          /\ ~LOOP' /\ pc' = pc /\ task' = task /\ executed' = executed
          /\ backendVars' = backendVars /\ pending' = pending
     /\ (intAt # "none" /\ pc = "execute") =>
          pc' \in {"execute", "delete", "stop", "raised"}]_vars

C16_Witness ==
  /\ intAt = "iteration" /\ pc = "done" /\ hist.lease = 1 /\ hist.leaseOk = 1
  /\ ret = 1 /\ hist.stopTrue = 0

\* C18: poll calls delete for a task only after that task's execute returned
\* without raising in the same iteration; the step in which execute raises
\* changes nothing in the backend and dispatches nothing, no step of poll
\* ends a lease other than by deleting the task, a task leaves the backend
\* only after poll called delete for it, and so a task the run leased and
\* never executed without an exception is still in the backend.
C18_DeleteOnlyAfterExecute ==
  [][/\ delSet' # delSet =>
          /\ pc = "delete" /\ exc = NoExc /\ task.id \in execSet
          /\ delSet' = delSet \cup {task.id}
     /\ (pc = "execute" /\ exc' # NoExc) =>
          /\ backendVars' = backendVars /\ pending' = pending
          /\ delSet' = delSet
     /\ \A i \in DOMAIN store \ DOMAIN store' : i \in delSet'
     /\ pollVars' # pollVars =>
          \A i \in leased \ leased' : i \in delSet' /\ i \notin DOMAIN store'
     /\ \A t \in leasedSet' : t.id \notin execSet' => t.id \in DOMAIN store']_vars

\* a task whose execute raised has been leased again after its lease expired
C18_Witness ==
  /\ pc = "execute" /\ hist.leaseOk = 2 /\ Cardinality(leasedSet) = 1
  /\ execSet = {} /\ delSet = {} /\ task.id \in leased

(* ----------------------- a client of the facade ------------------------ *)
\* the num_tasks and tag arguments the client passes to lease
NumTasksArgs == {1, 2}
LeaseTagArgs == {"", "A"}
\* the backend error the client's calls may end with
ClientErrors == {"E1"}

PendingInserts ==
  BagCardinality([call \in {k \in BagToSet(pending) : k.op = "cloud_insertion"} |->
                    pending[call]])

\* the client inserts a task
c_insert ==
  /\ nextId + PendingInserts <= MaxTasks
  /\ BagCardinality(pending) < MaxPending
  /\ insert([cls |-> ClassOf(nextId + PendingInserts), id |-> NoId])
  /\ cret' = [op |-> "insert"]
  /\ UNCHANGED <<n_threads, errors, held, unconfirmed, acked, pollVars, obsVars, farVars>>

\* the client leases
c_lease ==
  /\ \E n \in NumTasksArgs, tg \in LeaseTagArgs :
       \E r \in {x \in lease(n, tg) : x.raised \notin Errors \ ClientErrors} :
         /\ api_lease(r.recs)
         /\ cret' = [op |-> "lease", recs |-> r.recs,
                     raised |-> r.raised, task |-> r.task]
         /\ held' = IF r.raised = NoExc THEN held \cup {r.task.id} ELSE held
  /\ UNCHANGED <<dispatchVars, unconfirmed, acked, pollVars, obsVars, farVars>>

\* what the client knows after a delete or acknowledge call ended with result
Deleted(i, result) ==
  /\ cret' = [op |-> "delete", raised |-> IF result = "ok" THEN NoExc ELSE result]
  /\ held' = held \ {i}
  /\ IF n_threads > 0
       THEN unconfirmed' = unconfirmed \cup {i} /\ acked' = acked
       ELSE /\ unconfirmed' = unconfirmed
            /\ acked' = IF result = "ok" THEN acked \cup {i} ELSE acked
  /\ UNCHANGED <<n_threads, errors, pollVars, obsVars, farVars>>

\* the client deletes a task it leased
c_delete ==
  /\ BagCardinality(pending) < MaxPending
  /\ \E i \in held, result \in {"ok"} \cup ClientErrors :
       delete(i, result) /\ Deleted(i, result)

\* the client acknowledges a task it leased
c_acknowledge ==
  /\ BagCardinality(pending) < MaxPending
  /\ \E i \in held, result \in {"ok"} \cup ClientErrors :
       acknowledge(i, result) /\ Deleted(i, result)

\* ThreadedQueue.wait(): returns once the dispatcher's queue is drained, and
\* raises when a dispatched call failed
wait ==
  /\ pending = EmptyBag
  /\ errors' = FALSE
  /\ unconfirmed' = {}
  /\ IF errors
       THEN cret' = [op |-> "wait", raised |-> "error"] /\ acked' = acked
       ELSE /\ cret' = [op |-> "wait", raised |-> NoExc]
            /\ acked' = acked \cup unconfirmed
  /\ UNCHANGED <<n_threads, pending, held>>

\* the client waits for the dispatched calls
c_wait ==
  /\ n_threads > 0
  /\ wait
  /\ UNCHANGED <<backendVars, pollVars, obsVars, farVars>>

\* the client lists the queue
c_list ==
  /\ cret' = [op |-> "list", listing |-> list]
  /\ UNCHANGED <<backendVars, dispatchVars, held, unconfirmed, acked>>
  /\ UNCHANGED <<pollVars, obsVars, farVars>>

NextFacade ==
  \/ c_insert \/ c_lease \/ c_delete \/ c_acknowledge \/ c_wait \/ c_list
  \/ EnvDispatch \/ EnvLeaseExpire

SpecFacade == Init /\ [][NextFacade]_vars

(* ----------------------- claims about the facade ----------------------- *)
\* C8: a task whose delete through the facade is complete (the call returned
\* without a thread pool, or a wait() drained the dispatcher without an error)
\* is in the result of no later list() and is returned by no later lease().
C8_AckedGone ==
  \A i \in acked :
    /\ cret.op = "list" => \A t \in cret.listing : t.id # i
    /\ cret.op = "lease" => \A k \in DOMAIN cret.recs : cret.recs[k].id # i
    /\ cret.op = "lease" => cret.task.id # i

C8_Witness ==
  /\ n_threads > 0 /\ acked # {} /\ cret.op = "list" /\ cret.listing # {}

\* C9: lease raises QueueEmpty exactly when the backend answers with no
\* record; otherwise it raises nothing and returns the task of the first
\* record, with that record's id.
C9_LeaseResult ==
  (cret.op = "lease" /\ cret.raised \notin Errors) =>
     /\ cret.raised = QueueEmpty <=> Len(cret.recs) = 0
     /\ Len(cret.recs) > 0 =>
          /\ cret.raised = NoExc
          /\ cret.task = [cls |-> cret.recs[1].payload[1], id |-> cret.recs[1].id]

C9_Witness ==
  /\ cret.op = "lease" /\ Len(cret.recs) = 2 /\ cret.recs[1].id = 2
  /\ cret.task.id = 2 /\ cret.task.cls = "A"

(* --------------------------- LocalTaskQueue ---------------------------- *)
\* everything outside the LocalTaskQueue
notLocal ==
  <<backendVars, dispatchVars, pollVars, obsVars, clientVars, purgeVars,
    expiredIds, crowdVars>>

\* the ids of the buffered tasks
Buffered == {queue[i].id : i \in DOMAIN queue}
\* the futures in state st
FuturesIn(st) == {i \in DOMAIN futures : futures[i] = st}

\* LocalTaskQueue.insert, lines 353-354: the task is appended to the buffer.
\* bad tells whether the task's execute raises
local_insert ==
  /\ scope = "open"
  /\ Len(log) < MaxTasks
  /\ \E bad \in BOOLEAN :
       /\ queue' = Append(queue, [id |-> Len(log) + 1, bad |-> bad])
       /\ log' = Append(log, [bad |-> bad, runs |-> 0])
  /\ UNCHANGED <<parallel, scope, futures, yielded, lastExit, exits, notLocal>>

\* __exit__, lines 368-371: the pool is created and executor.map submits
\* task_execute for every buffered task
local_exit ==
  /\ scope = "open"
  /\ exits < MaxExits
  /\ exits' = exits + 1
  /\ scope' = "draining"
  /\ futures' = [i \in DOMAIN queue |-> "pending"]
  /\ yielded' = 0
  /\ UNCHANGED <<parallel, queue, log, lastExit, notLocal>>

\* task_execute, lines 377-378: the worker process calls the task's execute
task_execute(t) ==
  log' = [log EXCEPT ![t.id].runs = @ + 1]

\* a free worker process takes the next submitted task and calls task_execute
pool_start ==
  /\ scope \in {"draining", "failing"}
  /\ FuturesIn("pending") # {}
  /\ Cardinality(FuturesIn("running")) < parallel
  /\ LET i == CHOOSE j \in FuturesIn("pending") :
                 \A k \in FuturesIn("pending") : j <= k
     IN /\ futures' = [futures EXCEPT ![i] = "running"]
        /\ task_execute(queue[i])
  /\ UNCHANGED <<parallel, queue, scope, yielded, lastExit, exits, notLocal>>

\* a worker process is done with a task: execute returned or raised
pool_finish ==
  /\ \E i \in FuturesIn("running") :
       futures' = [futures EXCEPT
                     ![i] = IF queue[i].bad THEN "failed" ELSE "done"]
  /\ UNCHANGED <<parallel, queue, scope, yielded, log, lastExit, exits, notLocal>>

\* line 371: the iteration over executor.map is given the next result, in
\* the order of the buffer; the result of a task whose execute raised is that
\* exception, raised in __exit__: the iterator cancels the futures not yet
\* started, and the pool waits for the running ones
local_next_result ==
  /\ scope = "draining"
  /\ yielded < Len(queue)
  /\ futures[yielded + 1] \in {"done", "failed"}
  /\ IF futures[yielded + 1] = "done"
       THEN /\ yielded' = yielded + 1
            /\ UNCHANGED <<scope, futures>>
       ELSE /\ scope' = "failing"
            /\ futures' = [i \in DOMAIN futures |->
                              IF futures[i] = "pending" THEN "cancelled"
                              ELSE futures[i]]
            /\ yielded' = yielded
  /\ UNCHANGED <<parallel, queue, log, lastExit, exits, notLocal>>

\* a faulty variant of the end of __exit__: the buffer is kept
local_return_keeps ==
  /\ scope = "draining"
  /\ yielded = Len(queue)
  /\ queue' = queue
  /\ scope' = "open"
  /\ futures' = <<>>
  /\ yielded' = 0
  /\ lastExit' = "returned"
  /\ UNCHANGED <<parallel, log, exits, notLocal>>

\* lines 371-373: every result was given, the with blocks are left, the
\* buffer is cleared and __exit__ returns
local_return ==
  /\ scope = "draining"
  /\ yielded = Len(queue)
  /\ queue' = <<>>
  /\ scope' = "open"
  /\ futures' = <<>>
  /\ yielded' = 0
  /\ lastExit' = "returned"
  /\ UNCHANGED <<parallel, log, exits, notLocal>>

\* lines 369-371: the exception leaves the with blocks once the pool is shut
\* down, and leaves __exit__; line 373 is not reached
local_raise ==
  /\ scope = "failing"
  /\ FuturesIn("running") = {}
  /\ scope' = "open"
  /\ futures' = <<>>
  /\ yielded' = 0
  /\ lastExit' = "raised"
  /\ UNCHANGED <<parallel, queue, log, exits, notLocal>>

InitLocal ==
  /\ store = <<>> /\ leased = {} /\ nextId = 1
  /\ n_threads = 0 /\ pending = EmptyBag /\ errors = FALSE
  /\ PollInit /\ ClientInit /\ LocalInit /\ PurgeInit /\ expiredIds = {} /\ CrowdIdle

NextLocal ==
  \/ local_insert \/ local_exit \/ pool_start \/ pool_finish
  \/ local_next_result \/ local_return \/ local_raise

SpecLocal == InitLocal /\ [][NextLocal]_vars

(* -------------------- claims about LocalTaskQueue ---------------------- *)
\* C12: a scope exit raises only when the execute of a buffered task raises;
\* a scope exit that returns leaves the buffer empty, after execute was called
\* exactly once on every buffered task and returned; a task that has left the
\* buffer was executed exactly once, whatever scope exits follow.
C12_DrainedExactlyOnce ==
  [][/\ \A k \in DOMAIN log' : k \notin Buffered' => log'[k].runs = 1
     /\ scope' = "failing" => \E i \in DOMAIN queue : queue[i].bad
     /\ (scope = "draining" /\ scope' = "open" /\ lastExit' = "returned") =>
          /\ queue' = <<>>
          /\ \A i \in DOMAIN queue :
               /\ ~queue[i].bad /\ futures[i] = "done"
               /\ log[queue[i].id].runs = 1]_vars

\* two scope exits have returned, each after executing the one task inserted
\* before it
C12_Witness ==
  /\ exits = 2 /\ scope = "open" /\ lastExit = "returned" /\ queue = <<>>
  /\ Len(log) = 2 /\ log[1].runs = 1 /\ log[2].runs = 1 /\ parallel = 2

\* C17: after a scope exit that raised, the buffer is empty.
C17_BufferEmptyAfterRaise ==
  (scope = "open" /\ lastExit = "raised") => queue = <<>>

(* ------------------------------- purge --------------------------------- *)
\* lines 175-179: the backend has no purge; the AttributeError is caught and
\* the loop entered
purge ==
  /\ ppc = "idle"
  /\ ppc' = "list"
  /\ UNCHANGED <<lst, todo, pmark>>
  /\ UNCHANGED <<backendVars, dispatchVars, pollVars, obsVars, clientVars>>
  /\ UNCHANGED <<localVars, expiredIds, crowdVars>>

\* lines 180-183: list the queue; an empty list ends the loop
purge_list ==
  /\ ppc = "list"
  /\ lst' = list
  /\ todo' = list
  /\ pmark' = nextId
  /\ ppc' = IF list = {} THEN "done" ELSE "delete"
  /\ UNCHANGED <<backendVars, dispatchVars, pollVars, obsVars, clientVars>>
  /\ UNCHANGED <<localVars, expiredIds, crowdVars>>

\* lines 185-186: delete the next listed task; after the last one, wait
purge_delete ==
  /\ ppc = "delete"
  /\ \E t \in todo, result \in {"ok"} \cup Errors :
       /\ delete(t.id, result)
       /\ IF result = "ok"
            THEN /\ todo' = todo \ {t}
                 /\ ppc' = IF todo' = {} THEN "wait" ELSE "delete"
            ELSE /\ todo' = todo
                 /\ ppc' = "raised"
  /\ UNCHANGED <<lst, pmark, n_threads, errors, pollVars, obsVars, clientVars>>
  /\ UNCHANGED <<localVars, expiredIds, crowdVars>>

\* a faulty variant of the wait step: purge returns after one round
purge_wait_returns ==
  /\ ppc = "wait"
  /\ wait
  /\ ppc' = IF errors THEN "raised" ELSE "done"
  /\ UNCHANGED <<lst, todo, pmark, backendVars, pollVars, obsVars, localVars,
               expiredIds, crowdVars>>

\* line 187: wait for the dispatched deletes, then list again; the error of
\* a dispatched delete is raised here
purge_wait ==
  /\ ppc = "wait"
  /\ wait
  /\ ppc' = IF errors THEN "raised" ELSE "list"
  /\ UNCHANGED <<lst, todo, pmark, backendVars, pollVars, obsVars, localVars,
               expiredIds, crowdVars>>

\* some tasks are in the queue, some of them leased, when purge is called
InitPurge ==
  /\ \E k \in 0..MaxTasks : Preloaded(k)
  /\ leased \in SUBSET DOMAIN store
  /\ n_threads \in ThreadCounts /\ pending = EmptyBag /\ errors = FALSE
  /\ PollInit /\ ClientInit /\ LocalIdle /\ PurgeInit /\ expiredIds = {} /\ CrowdIdle

PurgeStep == purge \/ purge_list \/ purge_delete \/ purge_wait

NextPurge ==
  \/ purge \/ purge_list \/ purge_delete \/ purge_wait
  \/ EnvDispatch \/ EnvLeaseExpire \/ EnvProducer

\* the call goes on as long as it can, and so do the dispatcher's threads
SpecPurge ==
  InitPurge /\ [][NextPurge]_vars /\ WF_vars(PurgeStep) /\ WF_vars(EnvDispatch)

(* ------------------------- claims about purge -------------------------- *)
\* C13: purge ends, by returning or by raising; it returns only after a
\* list() that was empty, and the tasks then in the queue were all inserted
\* after that list(): none when no producer inserted since.
C13_PurgeEndsOnEmptyList ==
  /\ [](ppc = "done" =>
          /\ lst = {} /\ todo = {}
          /\ \A i \in DOMAIN store : i >= pmark
          /\ nextId = pmark => list = {})
  /\ <>(ppc \in {"done", "raised"})

C13_Witness ==
  /\ ppc = "done" /\ n_threads > 0 /\ cret.op = "wait" /\ nextId = 3
  /\ store = <<>> /\ pmark = 3

(* ---------------------- one poll run to the end ------------------------ *)
\* A poll run on a queue that holds a finite set of tasks and gets no more:
\* every execute returns, no backend call fails, no interrupt arrives, and
\* stop_fn answers true exactly when the queue is empty.
drain_poll == poll /\ pc' = "while"
drain_lease == poll_lease /\ exc' \in {NoExc, QueueEmpty}
drain_execute == poll_execute /\ exc' = NoExc
drain_delete == poll_delete /\ exc' = NoExc
drain_stop == poll_stop /\ (hist'.stopTrue # hist.stopTrue <=> DOMAIN store = {})
drain_dispatch == EnvDispatch /\ ~errors'

\* a lease runs out, once per task at most
drain_expire ==
  /\ LeaseExpire
  /\ (leased \ leased') \cap expiredIds = {}
  /\ expiredIds' = expiredIds \cup (leased \ leased')
  /\ UNCHANGED <<dispatchVars, pollVars, obsVars, clientVars>>
  /\ UNCHANGED <<localVars, purgeVars, crowdVars>>

InitDrain ==
  /\ \E k \in 0..MaxTasks : Preloaded(k)
  /\ leased = {}
  /\ n_threads \in ThreadCounts /\ pending = EmptyBag /\ errors = FALSE
  /\ PollInit /\ ClientInit /\ LocalIdle /\ PurgeInit /\ expiredIds = {} /\ CrowdIdle

DrainStep ==
  \/ drain_poll \/ loop_test \/ drain_lease \/ drain_execute \/ drain_delete
  \/ drain_stop \/ poll_sleep \/ poll_wake \/ poll_exit

NextDrain ==
  \/ drain_poll \/ loop_test \/ drain_lease \/ drain_execute \/ drain_delete
  \/ drain_stop \/ poll_sleep \/ poll_wake \/ poll_exit
  \/ drain_dispatch \/ drain_expire

\* the run goes on as long as it can, and so do the dispatcher's threads
SpecDrain ==
  InitDrain /\ [][NextDrain]_vars /\ WF_vars(DrainStep) /\ WF_vars(drain_dispatch)

Runs == {"r1", "r2"}

\* lines 298-302: where the run goes after exception e
run_on_exception(e) == IF e \in args.backoff_exceptions THEN "stop" ELSE "raised"

\* lines 286-290: the loop test passes and the run leases one task
run_lease(r) ==
  /\ runs[r].pc = "lease"
  /\ grants < MaxIter
  /\ grants' = grants + 1
  /\ \E a \in lease(1, NoneTag) :
       /\ api_lease(a.recs)
       /\ runs' = [runs EXCEPT ![r] =
                     IF a.raised = NoExc
                       THEN [pc |-> "execute", task |-> a.task]
                       ELSE [pc |-> run_on_exception(a.raised), task |-> NoTask]]
  /\ UNCHANGED <<calls, expiredIds, dispatchVars, pollVars, obsVars, clientVars>>
  /\ UNCHANGED <<localVars, purgeVars>>

\* lines 292-293: the run executes the task it leased
run_execute(r) ==
  /\ runs[r].pc = "execute"
  /\ \/ /\ runs' = [runs EXCEPT ![r].pc = "delete"]
        /\ calls' = [calls EXCEPT ![runs[r].task.id].execs = @ + 1,
                                  ![runs[r].task.id].oks = @ + 1]
     \/ \E e \in Errors \cup {QueueEmpty} :
          /\ runs' = [runs EXCEPT ![r].pc = run_on_exception(e)]
          /\ calls' = [calls EXCEPT ![runs[r].task.id].execs = @ + 1,
                                    ![runs[r].task.id].raised = TRUE]
  /\ UNCHANGED <<grants, expiredIds, backendVars, dispatchVars>>
  /\ UNCHANGED <<pollVars, obsVars, clientVars, localVars, purgeVars>>

\* a faulty variant of the delete step: the lease is cancelled instead
run_delete_cancels(r) ==
  /\ runs[r].pc = "delete"
  /\ leased' = leased \ {runs[r].task.id}
  /\ runs' = [runs EXCEPT ![r].pc = "stop"]
  /\ UNCHANGED <<store, nextId, grants, calls, expiredIds, dispatchVars>>
  /\ UNCHANGED <<pollVars, obsVars, clientVars, localVars, purgeVars>>

\* line 295: the run deletes the task it executed
run_delete(r) ==
  /\ runs[r].pc = "delete"
  /\ \E result \in {"ok"} \cup Errors :
       /\ delete(runs[r].task.id, result)
       /\ runs' = [runs EXCEPT ![r].pc =
                     IF result = "ok" THEN "stop" ELSE run_on_exception(result)]
  /\ UNCHANGED <<grants, calls, expiredIds, n_threads, errors>>
  /\ UNCHANGED <<pollVars, obsVars, clientVars, localVars, purgeVars>>

\* lines 304-305 and 312-315: stop_fn ends the run, or the loop goes on
run_stop(r) ==
  /\ runs[r].pc = "stop"
  /\ \E stop \in BOOLEAN :
       runs' = [runs EXCEPT ![r].pc = IF stop THEN "done" ELSE "lease"]
  /\ UNCHANGED <<grants, calls, expiredIds, backendVars, dispatchVars>>
  /\ UNCHANGED <<pollVars, obsVars, clientVars, localVars, purgeVars>>

\* a lease runs out
crowd_expire ==
  /\ LeaseExpire
  /\ expiredIds' = expiredIds \cup (leased \ leased')
  /\ UNCHANGED <<dispatchVars, pollVars, obsVars, clientVars>>
  /\ UNCHANGED <<localVars, purgeVars, crowdVars>>

\* some tasks are in the queue when the runs start
InitCrowd ==
  /\ \E k \in 1..MaxTasks :
       /\ Preloaded(k)
       /\ calls = [i \in 1..k |-> [execs |-> 0, oks |-> 0, raised |-> FALSE]]
  /\ leased = {}
  /\ n_threads \in ThreadCounts /\ pending = EmptyBag /\ errors = FALSE
  /\ \E be \in BackoffArgs :
       /\ pc = "idle" /\ LOOP = FALSE /\ handler = "prev"
       /\ args = [Args0 EXCEPT !.listed = be,
                               !.backoff_exceptions = backoff_exceptions(be)]
  /\ tries = 0 /\ executed = 0 /\ backoff = FALSE /\ task = NoTask
  /\ dur = 0 /\ ret = 0
  /\ exc = NoExc /\ hist = Hist0 /\ consec = 0 /\ doneSet = {}
  /\ execSet = {} /\ delSet = {} /\ leasedSet = {} /\ intAt = "none"
  /\ ClientInit /\ LocalIdle /\ PurgeInit /\ expiredIds = {}
  /\ runs = [r \in Runs |-> [pc |-> "lease", task |-> NoTask]]
  /\ grants = 0

NextCrowd ==
  \/ \E r \in Runs : run_lease(r)
  \/ \E r \in Runs : run_execute(r)
  \/ \E r \in Runs : run_delete(r)
  \/ \E r \in Runs : run_stop(r)
  \/ EnvDispatch \/ crowd_expire

SpecCrowd == InitCrowd /\ [][NextCrowd]_vars

(* ------------------- claims about several poll runs -------------------- *)
Ended == \A r \in Runs : runs[r].pc \in {"done", "raised"}

\* C20 as stated: every task is executed at least once.
C20_EveryTaskExecuted ==
  Ended => \A i \in DOMAIN calls : calls[i].execs >= 1

\* C20 amended: a task that has left the queue was executed, with its execute
\* returning, at least once; when the runs have ended with the queue empty
\* every task was executed; and execute is called more than once on a task
\* only if a lease on it expired or an earlier execution of it raised.
C20_AtLeastOnce ==
  /\ \A i \in DOMAIN calls :
       /\ i \notin DOMAIN store => calls[i].oks >= 1
       /\ calls[i].execs >= 2 => (i \in expiredIds \/ calls[i].raised)
  /\ (Ended /\ DOMAIN store = {}) => \A i \in DOMAIN calls : calls[i].execs >= 1
  /\ \A r1, r2 \in Runs :
       (r1 # r2 /\ runs[r1].pc = "execute" /\ runs[r2].pc = "execute"
          /\ runs[r1].task.id = runs[r2].task.id) =>
            runs[r1].task.id \in expiredIds

\* both runs have executed the same task: the lease of the first expired
\* before its delete
C20_Witness ==
  /\ runs["r1"].pc = "stop" /\ runs["r2"].pc = "stop"
  /\ runs["r1"].task.id = 1 /\ runs["r2"].task.id = 1
  /\ calls[1].execs = 2 /\ calls[1].oks = 2 /\ 1 \in expiredIds
  /\ DOMAIN store = {}

====
